---- MODULE Spec2Model ----
(***************************************************************************)
(* Multi-project persistent state store of the deductive-design-system     *)
(* (src/lib/store.ts): the small-value tier (localStorage), the bulk tier  *)
(* (IndexedDB behind idbGet/idbSet/idbDelete), the one-slot coalesced      *)
(* save, the migration routine and the project operations of AppProvider.  *)
(*                                                                         *)
(* Data abstraction.  A field value of a project document is a token in    *)
(* 0..MaxVal; token 0 of a field is that field's default value ([] , "",   *)
(* null, {} ...), tokens above 0 are distinct non-default values (for the  *)
(* string field researchTheme: distinct non-empty strings).  A project id  *)
(* is a number: DEFAULT_PROJECT_ID stands for "default", n >= 1 for the    *)
(* n-th id returned by generateId().  A storage key is the tuple of its    *)
(* dash-separated parts.  Timestamps are readings of the logical clock.    *)
(***************************************************************************)
EXTENDS Integers, Sequences, FiniteSets, TLC

\* ---------------------------------------------------------------- bounds
MaxVal       == 1   \* non-default tokens per field
MaxMutFields == 2   \* the setters exercised are those of the first fields
MaxNew       == 2   \* ids generateId() hands out
MaxLoads     == 2   \* asynchronous loads in flight at once
MaxOps       == 3   \* calls of the provider's operations in one session
MaxEarly     == 1   \* of which before the provider is initialized

\* ------------------------------------------------------------- constants
PROJECTS_INDEX_KEY  == <<"deductive-design-projects">>
STATE_KEY_PREFIX    == "deductive-design-state"
CURRENT_PROJECT_KEY == <<"deductive-design-current-project">>
LEGACY_STORAGE_KEY  == <<"deductive-design-state">>
DEFAULT_PROJECT_ID  == 0

stateKeyFor(projectId) == <<STATE_KEY_PREFIX, projectId>>

ProjectIds == 0..MaxNew
Vals       == 0..MaxVal

\* The fields of PersistedState, in declaration order.
FieldSeq ==
  << "conditions", "researchTheme", "generatedDesigns", "filteredDesigns",
     "researchJobs", "generateJobs", "generateImages", "selectedConcepts",
     "refinedConcept", "sceneConstraint", "detailImages",
     "evaluationResults", "atmosphere" >>
Fields == { FieldSeq[i] : i \in 1..Len(FieldSeq) }
MutFields == { FieldSeq[i] : i \in 1..MaxMutFields }

\* ------------------------------------------------------------- JS values
Undefined == [t |-> "undefined"]
Null      == [t |-> "null"]
Num       == [t |-> "number"]
Obj(o)    == [t |-> "object", o |-> o]
\* A string held by localStorage: the text of a JSON value, a text that is
\* not JSON, the empty string, or a bare project id.
Text(v)   == [t |-> "text", parse |-> v]
Garbage   == [t |-> "text", parse |-> [t |-> "SyntaxError"]]
Empty     == [t |-> "empty"]
IdText(i) == [t |-> "id", id |-> i]

Truthy(v) == v.t \in {"object", "array", "number", "text", "id"}

\* JSON.parse: the value, or a throw.
Throws == [ok |-> FALSE]
Ret(v) == [ok |-> TRUE, v |-> v]
JSONparse(raw) ==
  IF raw.t = "text" /\ raw.parse.t # "SyntaxError" THEN Ret(raw.parse)
  ELSE Throws

\* JSON.stringify of an object: keys whose value is undefined are left out.
DropUndefined(o) ==
  [k \in { j \in DOMAIN o : o[j] # Undefined } |-> o[k]]
JSONstringify(o) == Text(Obj(DropUndefined(o)))

Arr(s)    == [t |-> "array", a |-> s]

\* The own enumerable keys of a value: those of an object, the indices of an
\* array, none for a number or null.
OwnProps(v) ==
  IF v.t = "object" THEN v.o
  ELSE IF v.t = "array" THEN [k \in { ToString(i - 1) : i \in DOMAIN v.a } |->
                               v.a[CHOOSE i \in DOMAIN v.a : ToString(i - 1) = k]]
  ELSE [k \in {} |-> 0]

\* { ...a, ...v }: the own enumerable keys of v override those of a.
Spread(a, v) ==
  [k \in DOMAIN a \cup DOMAIN OwnProps(v) |->
     IF k \in DOMAIN OwnProps(v) THEN OwnProps(v)[k] ELSE a[k]]

\* obj.key for a parsed JSON value: undefined when the key is missing, a
\* TypeError on null.
Prop(v, key) ==
  IF v.t \in {"null", "undefined"} THEN Throws
  ELSE IF v.t = "object" /\ key \in DOMAIN v.o
       THEN [ok |-> TRUE, has |-> TRUE, v |-> v.o[key]]
       ELSE [ok |-> TRUE, has |-> FALSE]

\* --------------------------------------------------------- PersistedState
defaultState == [f \in Fields |-> 0]

\* A field token is truthy when it is not the empty/default string.
TokenTruthy(r) == r.ok /\ r.has /\ r.v # 0

ProjectMeta(id, name, theme, createdAt, updatedAt) ==
  [id |-> id, name |-> name, theme |-> theme,
   createdAt |-> createdAt, updatedAt |-> updatedAt]

\* ------------------------------------------------------------- the tiers
\* localStorage: key -> string or null (absent).
LsKeys == {PROJECTS_INDEX_KEY, CURRENT_PROJECT_KEY, LEGACY_STORAGE_KEY}
            \cup { stateKeyFor(i) : i \in ProjectIds }
IdbKeys == { stateKeyFor(i) : i \in ProjectIds }

getItem(ls, key)         == ls[key]
setItem(ls, key, value)  == [ls EXCEPT ![key] = value]
removeItem(ls, key)      == [ls EXCEPT ![key] = Null]

\* The bulk tier (lib/storage): a document per key, or undefined.
idbGet(db, key)          == db[key]
idbSet(db, key, value)   == [db EXCEPT ![key] = Obj(value)]
idbDelete(db, key)       == [db EXCEPT ![key] = Undefined]

\* ------------------------------------------------- project index helpers
\* The index is stored as the JSON text of the array of ProjectMeta.

loadProjectIndex(ls) ==
  LET raw == getItem(ls, PROJECTS_INDEX_KEY)
  IN  IF Truthy(raw) /\ JSONparse(raw).ok THEN JSONparse(raw).v.a ELSE << >>

saveProjectIndex(ls, projects) ==
  setItem(ls, PROJECTS_INDEX_KEY, Text(Arr(projects)))

loadCurrentProjectId(ls) ==
  LET raw == getItem(ls, CURRENT_PROJECT_KEY)
  IN  IF raw = Null THEN DEFAULT_PROJECT_ID ELSE raw.id

saveCurrentProjectId(ls, id) ==
  setItem(ls, CURRENT_PROJECT_KEY, IdText(id))

\* ------------------------------------------------------------- migration
\* migrateIfNeeded up to its await: TRUE when the legacy blob parses and the
\* merged document is handed to idbSet.
MigrateNeededAlways(ls) == TRUE
MigrateNeeded(ls) == Len(loadProjectIndex(ls)) = 0

MigrateWrites(ls) ==
  LET legacyRaw == getItem(ls, LEGACY_STORAGE_KEY)
  IN  /\ MigrateNeeded(ls)
      /\ Truthy(legacyRaw)
      /\ JSONparse(legacyRaw).ok
      /\ Prop(JSONparse(legacyRaw).v, "researchTheme").ok

MigrateMetaNoTheme(ls, t) == ProjectMeta(DEFAULT_PROJECT_ID, "Default", 0, t, t)

\* defaultMeta as it stands when the index is written.
MigrateMeta(ls, t) ==
  LET legacyRaw == getItem(ls, LEGACY_STORAGE_KEY)
      parsed    == JSONparse(legacyRaw)
      theme     == IF MigrateWrites(ls) /\ TokenTruthy(Prop(parsed.v, "researchTheme"))
                   THEN Prop(parsed.v, "researchTheme").v
                   ELSE 0
  IN  ProjectMeta(DEFAULT_PROJECT_ID, "Default", theme, t, t)

\* The bulk tier after the idbSet of the legacy branch.
MigrateIdb(ls, db) ==
  IF MigrateWrites(ls)
  THEN idbSet(db, stateKeyFor(DEFAULT_PROJECT_ID),
              Spread(defaultState, JSONparse(getItem(ls, LEGACY_STORAGE_KEY)).v))
  ELSE db

\* The part after the try block: drop the legacy key, write index and pointer.
MigrateFinish(ls, defaultMeta) ==
  LET legacyRaw == getItem(ls, LEGACY_STORAGE_KEY)
      ls1 == IF Truthy(legacyRaw) THEN removeItem(ls, LEGACY_STORAGE_KEY) ELSE ls
      ls2 == saveProjectIndex(ls1, <<defaultMeta>>)
  IN  saveCurrentProjectId(ls2, DEFAULT_PROJECT_ID)

\* migrateIfNeeded run to completion with nothing interleaved.
migrateIfNeeded(ls, db, t) ==
  IF ~MigrateNeeded(ls) THEN [ls |-> ls, db |-> db]
  ELSE [ls |-> MigrateFinish(ls, MigrateMeta(ls, t)), db |-> MigrateIdb(ls, db)]

\* -------------------------------------------------------- loadProjectState
LoadAfterGetNoMerge(ls, db, projectId) ==
  LET data == idbGet(db, stateKeyFor(projectId))
      raw  == getItem(ls, stateKeyFor(projectId))
  IN  IF Truthy(data)
      THEN [await |-> FALSE, state |-> data.o]
      ELSE IF Truthy(raw) /\ JSONparse(raw).ok
      THEN [await |-> TRUE, state |-> Spread(defaultState, JSONparse(raw).v)]
      ELSE [await |-> FALSE, state |-> defaultState]

\* After idbGet resolved: either the function returns (await FALSE) or it
\* hands the document found in localStorage to idbSet and awaits it.
LoadAfterGet(ls, db, projectId) ==
  LET data == idbGet(db, stateKeyFor(projectId))
      raw  == getItem(ls, stateKeyFor(projectId))
  IN  IF Truthy(data)
      THEN [await |-> FALSE, state |-> Spread(defaultState, data)]
      ELSE IF Truthy(raw)
      THEN IF JSONparse(raw).ok
           THEN [await |-> TRUE, state |-> Spread(defaultState, JSONparse(raw).v)]
           ELSE [await |-> FALSE, state |-> defaultState]
      ELSE [await |-> FALSE, state |-> defaultState]

\* loadProjectState run to completion with nothing interleaved.
loadProjectState(ls, db, projectId) ==
  LET r == LoadAfterGet(ls, db, projectId)
  IN  IF r.await
      THEN [state |-> r.state,
            ls |-> removeItem(ls, stateKeyFor(projectId)),
            db |-> idbSet(db, stateKeyFor(projectId), r.state)]
      ELSE [state |-> r.state, ls |-> ls, db |-> db]

\* ------------------------------------------------------------------ state
VARIABLES
  localStorage,      \* small-value tier: key -> string or null
  idb,               \* bulk tier: key -> document or undefined
  saveQueued,        \* module variable: an animation-frame flush is scheduled
  pendingSave,       \* module variable: the one pending save, or null
  initialized,       \* React state of AppProvider
  currentProjectId,
  projects,
  appState,          \* the 13 document fields held in React state
  effectPending,     \* a re-render after an asynchronous callback is due
  loads,             \* loadProjectState calls in flight, with their callers
  boot,              \* position and locals of the mount effect
  nextId,            \* the next id generateId() returns
  now,               \* the clock (it stands still within a session)
  ops,               \* operations called so far
  early,             \* whether callers may call before initialization
  exported,          \* the text the last exportProject resolved to
  step,              \* history: the operation that ran last
  wrote,             \* history: the idbSet calls of the last step
  reqLog,            \* history: save requests since the flush before last
  lastDoc,           \* history: document of the last save call per project
  sw,                \* history: the last switchProject that left a project
  hist               \* history: inputs and results of the function runs below

vars == << localStorage, idb, saveQueued, pendingSave, initialized,
           currentProjectId, projects, appState, effectPending, loads, boot,
           nextId, now, ops, early, exported, step, wrote, reqLog,
           lastDoc, sw, hist >>


\* ---------------------------------------------------------- save requests
PendingSave(projectId, state) == [projectId |-> projectId, state |-> state]

saveProjectStateKeepsFirst(slot, projectId, state) ==
  IF slot.saveQueued THEN slot
  ELSE [pendingSave |-> PendingSave(projectId, state), saveQueued |-> TRUE]

\* saveProjectState: the slot is overwritten; a flush is scheduled unless one
\* already is.  The scheduled callback exists exactly while saveQueued holds.
saveProjectState(slot, projectId, state) ==
  [pendingSave |-> PendingSave(projectId, state), saveQueued |-> TRUE]

\* Several calls in program order, starting from the slot as it stands.
RECURSIVE SaveCalls(_, _)
SaveCalls(slot, calls) ==
  IF calls = << >> THEN slot
  ELSE SaveCalls(saveProjectState(slot, Head(calls).projectId, Head(calls).state),
                 Tail(calls))

Slot == [pendingSave |-> pendingSave, saveQueued |-> saveQueued]

\* History of the requests: per project the latest document asked for since
\* the last flush, and how many requests changed the document asked for.
CountCap == 2
EmptyLog == [closed |-> FALSE, last |-> [i \in ProjectIds |-> Undefined], n |-> 0]

LogCall(log, call) ==
  LET l == IF log.closed THEN EmptyLog ELSE log
  IN  [closed |-> FALSE,
       last   |-> [l.last EXCEPT ![call.projectId] = call.state],
       n      |-> IF l.last[call.projectId] = call.state \/ l.n = CountCap
                  THEN l.n ELSE l.n + 1]

RECURSIVE LogCalls(_, _)
LogCalls(log, calls) ==
  IF calls = << >> THEN log ELSE LogCalls(LogCall(log, Head(calls)), Tail(calls))

RECURSIVE LastDocs(_, _)
LastDocs(ld, calls) ==
  IF calls = << >> THEN ld
  ELSE LastDocs([ld EXCEPT ![Head(calls).projectId] = Head(calls).state], Tail(calls))

\* The module variables and the request history after the calls of one step.
Saves(calls) ==
  /\ pendingSave' = SaveCalls(Slot, calls).pendingSave
  /\ saveQueued'  = SaveCalls(Slot, calls).saveQueued
  /\ reqLog'      = LogCalls(reqLog, calls)
  /\ lastDoc'     = LastDocs(lastDoc, calls)

Step(op, id, flag) == [op |-> op, id |-> id, flag |-> flag]
Did(op, id, flag) == step' = Step(op, id, flag) /\ UNCHANGED hist

\* ------------------------------------------------------------------- Init
\* Documents an earlier version of the program may have left behind: any
\* subset of the exercised fields, any token.
PartialDocs(F) == UNION { [D -> Vals] : D \in SUBSET F }

LegacyBlobs ==
  {Null, Empty, Garbage, Text(Null), Text(Num), Text(Arr(<< MaxVal >>))}
    \cup { Text(Obj(d)) : d \in PartialDocs(MutFields) }

EmptyLs  == [k \in LsKeys |-> Null]
EmptyIdb == [k \in IdbKeys |-> Undefined]

\* Storage as a first visit finds it: nothing, or the single legacy blob of
\* the one-project layout.
LegacyStorage(blob) == setItem(EmptyLs, LEGACY_STORAGE_KEY, blob)

\* Storage of the multi-project layout that kept the documents in
\* localStorage: an index of one project whose document is still there.
OlderStorage(raw) ==
  LET ls1 == saveProjectIndex(EmptyLs,
               << ProjectMeta(DEFAULT_PROJECT_ID, "Default", 0, 0, 0) >>)
      ls2 == saveCurrentProjectId(ls1, DEFAULT_PROJECT_ID)
  IN  setItem(ls2, stateKeyFor(DEFAULT_PROJECT_ID), raw)

\* The storage contents a session starts from.
Storages ==
  { LegacyStorage(Null),
    LegacyStorage(Text(Obj([researchTheme |-> MaxVal]))),
    OlderStorage(Text(Obj([conditions |-> MaxVal]))) }

BootStart == [pc |-> "mount", meta |-> Undefined, projId |-> DEFAULT_PROJECT_ID,
              list |-> << >>, i |-> 0]

InitMemory ==
  /\ saveQueued = FALSE
  /\ pendingSave = Null
  /\ initialized = FALSE
  /\ currentProjectId = DEFAULT_PROJECT_ID
  /\ projects = << >>
  /\ appState = defaultState
  /\ effectPending = FALSE
  /\ loads = << >>
  /\ boot = BootStart

InitHistory ==
  /\ step = Step("init", 0, "")
  /\ wrote = << >>
  /\ reqLog = EmptyLog
  /\ lastDoc = [i \in ProjectIds |-> Undefined]
  /\ sw = Undefined
  /\ hist = << >>

InitSession ==
  /\ localStorage \in Storages
  /\ idb = EmptyIdb
  /\ InitMemory
  /\ nextId = 1
  /\ now = 0
  /\ ops = 0
  /\ exported = Undefined
  /\ InitHistory

\* A session whose callers wait for the provider to be initialized, or one
\* whose callers may call while the mount effect is still running.
Init == InitSession /\ early \in BOOLEAN

\* ---------------------------------------------------------------- helpers
\* applyState copies the 13 fields of the document into React state.
applyState(state) == [f \in Fields |-> state[f]]

Find(seq, id) ==
  IF \E i \in DOMAIN seq : seq[i].id = id
  THEN seq[CHOOSE i \in DOMAIN seq : seq[i].id = id /\ \A j \in 1..(i-1) : seq[j].id # id]
  ELSE Undefined

RemoveAt(seq, i) == SubSeq(seq, 1, i - 1) \o SubSeq(seq, i + 1, Len(seq))

\* prev.map(p => p.id === id ? { ...p, updatedAt: now } : p)
Bump(projs, id, t) ==
  [i \in DOMAIN projs |->
     IF projs[i].id = id THEN [projs[i] EXCEPT !.updatedAt = t] ELSE projs[i]]

\* The ids a caller can name: the default one and every id handed out so far.
KnownIds == 0..(nextId - 1)

Wr(key, value) == [key |-> key, value |-> value]

Load(op, id, aux) ==
  [op |-> op, id |-> id, aux |-> aux, awaiting |-> "get", state |-> defaultState]

\* The re-render that follows a handler and the persist effect it triggers:
\* ls1, projs1, cur1, st1 are what the handler left, calls the save requests
\* it made.  The effect does nothing until the provider is initialized.
Render(ls1, projs1, cur1, st1, calls) ==
  /\ currentProjectId' = cur1
  /\ appState' = st1
  /\ IF initialized
     THEN /\ Saves(calls \o << PendingSave(cur1, st1) >>)
          /\ projects' = Bump(projs1, cur1, now)
          /\ localStorage' = saveProjectIndex(ls1, Bump(projs1, cur1, now))
     ELSE /\ Saves(calls)
          /\ projects' = projs1
          /\ localStorage' = ls1

\* ------------------------------------------------------- the mount effect
\* The loop over the project list: the first entry from i on whose
\* localStorage document parses, or 0.
ScanNext(ls, list, i) ==
  LET hit(j) == /\ Truthy(getItem(ls, stateKeyFor(list[j].id)))
                /\ JSONparse(getItem(ls, stateKeyFor(list[j].id))).ok
  IN  IF \E j \in i..Len(list) : hit(j)
      THEN CHOOSE j \in i..Len(list) : hit(j) /\ \A k \in i..(j-1) : ~hit(k)
      ELSE 0

\* The mount effect from the loop entry i on, up to its next await.
Scan(ls, projId, list, i) ==
  LET j == ScanNext(ls, list, i)
  IN  /\ localStorage' = ls
      /\ IF j # 0
         THEN /\ idb' = idbSet(idb, stateKeyFor(list[j].id),
                          Spread(defaultState,
                                 JSONparse(getItem(ls, stateKeyFor(list[j].id))).v))
              /\ wrote' = << Wr(stateKeyFor(list[j].id),
                                 Spread(defaultState,
                                        JSONparse(getItem(ls, stateKeyFor(list[j].id))).v)) >>
              /\ boot' = [pc |-> "scanAwait", meta |-> Undefined, projId |-> projId,
                          list |-> list, i |-> j]
              /\ UNCHANGED << currentProjectId, projects, loads >>
         ELSE /\ UNCHANGED idb
              /\ wrote' = << >>
              /\ currentProjectId' = projId
              /\ projects' = list
              /\ loads' = Append(loads, Load("init", projId, 0))
              /\ boot' = [BootStart EXCEPT !.pc = "load"]

BootFrame ==
  UNCHANGED << saveQueued, pendingSave, initialized, appState, effectPending,
               nextId, now, ops, early, exported, reqLog, lastDoc, sw >>

\* Mount: migrateIfNeeded up to its await, or through it and on into the loop.
BootMount ==
  /\ boot.pc = "mount"
  /\ Did("mount", 0, "")
  /\ BootFrame
  /\ IF MigrateWrites(localStorage)
     THEN /\ idb' = MigrateIdb(localStorage, idb)
          /\ wrote' = << Wr(stateKeyFor(DEFAULT_PROJECT_ID),
                             idbGet(MigrateIdb(localStorage, idb),
                                    stateKeyFor(DEFAULT_PROJECT_ID)).o) >>
          /\ boot' = [BootStart EXCEPT !.pc = "migrateAwait",
                                       !.meta = MigrateMeta(localStorage, now)]
          /\ UNCHANGED << localStorage, currentProjectId, projects, loads >>
     ELSE LET ls1 == IF MigrateNeeded(localStorage)
                     THEN MigrateFinish(localStorage, MigrateMeta(localStorage, now))
                     ELSE localStorage
          IN  Scan(ls1, loadCurrentProjectId(ls1), loadProjectIndex(ls1), 1)

\* The idbSet of the legacy branch resolved: the rest of migrateIfNeeded.
BootMigrateResume ==
  /\ boot.pc = "migrateAwait"
  /\ Did("migrated", 0, "")
  /\ BootFrame
  /\ LET ls1 == MigrateFinish(localStorage, boot.meta)
     IN  Scan(ls1, loadCurrentProjectId(ls1), loadProjectIndex(ls1), 1)

\* The idbSet of the loop resolved: drop the localStorage copy, go on.
BootScanResume ==
  /\ boot.pc = "scanAwait"
  /\ Did("scanned", 0, "")
  /\ BootFrame
  /\ Scan(removeItem(localStorage, stateKeyFor(boot.list[boot.i].id)),
          boot.projId, boot.list, boot.i + 1)

\* ------------------------------------------------- the animation frame
\* The callback saveProjectState handed to requestAnimationFrame.
Flush ==
  /\ saveQueued
  /\ saveQueued' = FALSE
  /\ Did("flush", 0, "")
  /\ reqLog' = [reqLog EXCEPT !.closed = TRUE]
  /\ IF pendingSave # Null
     THEN /\ idb' = idbSet(idb, stateKeyFor(pendingSave.projectId), pendingSave.state)
          /\ wrote' = << Wr(stateKeyFor(pendingSave.projectId), pendingSave.state) >>
          /\ pendingSave' = Null
     ELSE /\ wrote' = << >>
          /\ UNCHANGED << idb, pendingSave >>
  /\ UNCHANGED << localStorage, initialized, currentProjectId, projects, appState,
                  effectPending, loads, boot, nextId, now, ops, early, exported,
                  lastDoc, sw >>

\* The persist effect after a re-render caused by an asynchronous callback.
RunEffect ==
  /\ effectPending
  /\ effectPending' = FALSE
  /\ Did("effect", currentProjectId, "")
  /\ wrote' = << >>
  /\ Render(localStorage, projects, currentProjectId, appState, << >>)
  /\ UNCHANGED << idb, initialized, loads, boot, nextId, now, ops, early,
                  exported, sw >>

\* A handler is called: the renders and effects that were due have run.
Called ==
  /\ ~effectPending
  /\ ops < MaxOps
  /\ initialized \/ (early /\ ops < MaxEarly)
  /\ ops' = ops + 1
  /\ UNCHANGED early

\* ------------------------------------------------------------- state setters
\* setResearchTheme, addCondition, ...: one field gets another value.
Mutate(f, v) ==
  /\ Called
  /\ v # appState[f]
  /\ Did("mutate", currentProjectId, "")
  /\ wrote' = << >>
  /\ Render(localStorage, projects, currentProjectId, [appState EXCEPT ![f] = v], << >>)
  /\ UNCHANGED << idb, initialized, effectPending, loads, boot, nextId, now,
                  exported, sw >>

\* ------------------------------------------------------ project operations
CreateProject(name, theme) ==
  /\ Called
  /\ nextId <= MaxNew
  /\ LET newId    == nextId
         newMeta  == ProjectMeta(newId, name, theme, now, now)
         projs1   == Append(projects, newMeta)
         newState == [defaultState EXCEPT !["researchTheme"] = theme]
         ls1      == saveCurrentProjectId(saveProjectIndex(localStorage, projs1), newId)
     IN  Render(ls1, projs1, newId, applyState(newState),
                << PendingSave(currentProjectId, appState),
                   PendingSave(newId, newState) >>)
  /\ nextId' = nextId + 1
  /\ Did("createProject", nextId, "")
  /\ wrote' = << >>
  /\ UNCHANGED << idb, initialized, effectPending, loads, boot, now, exported, sw >>

switchIsNoopNever(id, cur) == FALSE

\* if (id === currentProjectId) return;
switchIsNoop(id, cur) == id = cur

SwitchProject(id) ==
  /\ Called
  /\ wrote' = << >>
  /\ IF switchIsNoop(id, currentProjectId)
     THEN /\ Did("switchProject", id, "noop")
          /\ UNCHANGED << saveQueued, pendingSave, reqLog, lastDoc, loads, sw >>
     ELSE /\ Len(loads) < MaxLoads
          /\ Did("switchProject", id, "")
          /\ Saves(<< PendingSave(currentProjectId, appState) >>)
          /\ loads' = Append(loads, Load("switch", id, 0))
          /\ sw' = [from |-> currentProjectId, to |-> id]
  /\ UNCHANGED << localStorage, idb, initialized, currentProjectId, projects,
                  appState, effectPending, boot, nextId, now, exported >>

deleteNextLast(updated) == updated[Len(updated)]

\* const next = updated[0];
deleteNext(updated) == updated[1]

\* if (idx.length <= 1) return;
deleteRefusedBelowOne(idx) == Len(idx) < 1
deleteRefused(idx) == Len(idx) <= 1

DeleteProject(id) ==
  /\ Called
  /\ wrote' = << >>
  /\ LET idx     == loadProjectIndex(localStorage)
         updated == SelectSeq(idx, LAMBDA p : p.id # id)
     IN  IF deleteRefused(idx)
         THEN /\ Did("deleteProject", id, "refused")
              /\ UNCHANGED << localStorage, idb, projects, loads, lastDoc, sw >>
         ELSE /\ id = currentProjectId => Len(loads) < MaxLoads
              /\ Did("deleteProject", id, "")
              /\ localStorage' = removeItem(saveProjectIndex(localStorage, updated),
                                            stateKeyFor(id))
              /\ projects' = updated
              /\ idb' = idbDelete(idb, stateKeyFor(id))
              \* next.id throws on an empty list, after the writes above
              /\ loads' = IF id = currentProjectId /\ updated # << >>
                          THEN Append(loads, Load("delete", deleteNext(updated).id, 0))
                          ELSE loads
              /\ lastDoc' = [lastDoc EXCEPT ![id] = Undefined]
              /\ sw' = IF sw # Undefined /\ sw.from = id THEN Undefined ELSE sw
  /\ UNCHANGED << saveQueued, pendingSave, initialized, currentProjectId, appState,
                  effectPending, boot, nextId, now, exported, reqLog >>

dupSavesAlways(id, cur, state) == << PendingSave(id, state) >>

\* if (id === currentProjectId) saveProjectState(currentProjectId, collectState());
dupSaves(id, cur, state) ==
  IF id = cur THEN << PendingSave(cur, state) >> ELSE << >>

DuplicateProject(id) ==
  /\ Called
  /\ wrote' = << >>
  /\ Saves(dupSaves(id, currentProjectId, appState))
  /\ LET source == Find(loadProjectIndex(localStorage), id)
     IN  IF source = Undefined
         THEN /\ Did("duplicateProject", id, "noop")
              /\ UNCHANGED << localStorage, projects, loads, nextId >>
         ELSE /\ nextId <= MaxNew
              /\ Len(loads) < MaxLoads
              /\ Did("duplicateProject", id, "")
              /\ loads' = Append(loads,
                   Load("dup", id,
                        [newId |-> nextId,
                         orig  |-> IF id = currentProjectId /\ initialized
                                   THEN appState
                                   ELSE loadProjectState(localStorage, idb, id).state]))
              /\ projects' = Append(projects,
                               ProjectMeta(nextId, source.name \o " (copy)",
                                           source.theme, now, now))
              /\ localStorage' = saveProjectIndex(localStorage, projects')
              /\ nextId' = nextId + 1
  /\ UNCHANGED << idb, initialized, currentProjectId, appState, effectPending,
                  boot, now, exported, sw >>

RenameProject(id, name) ==
  /\ Called
  /\ wrote' = << >>
  /\ Did("renameProject", id, "")
  /\ projects' = [i \in DOMAIN projects |->
                    IF projects[i].id = id
                    THEN [projects[i] EXCEPT !.name = name, !.updatedAt = now]
                    ELSE projects[i]]
  /\ localStorage' = saveProjectIndex(localStorage, projects')
  /\ UNCHANGED << idb, saveQueued, pendingSave, initialized, currentProjectId,
                  appState, effectPending, loads, boot, nextId, now, exported, reqLog, lastDoc, sw >>

\* exportProject up to its await.  orig remembers, for the round trip, the
\* document of the project as the call found it.
ExportProject(id) ==
  /\ Called
  /\ Len(loads) < MaxLoads
  /\ wrote' = << >>
  /\ Did("exportProject", id, "")
  /\ Saves(IF id = currentProjectId
           THEN << PendingSave(currentProjectId, appState) >> ELSE << >>)
  /\ loads' = Append(loads,
       Load("export", id,
            [meta |-> Find(loadProjectIndex(localStorage), id),
             orig |-> IF id = currentProjectId /\ initialized THEN appState
                      ELSE loadProjectState(localStorage, idb, id).state]))
  /\ UNCHANGED << localStorage, idb, initialized, currentProjectId, projects,
                  appState, effectPending, boot, nextId, now, exported, sw >>

\* The texts handed to importProject: the last export, a bare document, a
\* text that is not JSON, and the text "null".
ImportTexts ==
  (IF exported = Undefined THEN {} ELSE {exported.json})
    \cup { Text(Obj([researchTheme |-> MaxVal])), Garbage, Text(Null) }

importNameFixed(m) == "Imported"

\* data.meta?.name ?? "Imported"
importName(m) ==
  IF m.has /\ "name" \in DOMAIN m.v THEN m.v.name ELSE "Imported"

\* data.meta?.theme ?? ""
importTheme(m) ==
  IF m.has /\ "theme" \in DOMAIN m.v THEN m.v.theme ELSE 0

\* What importProject builds from the parsed text, or a throw.
ImportParse(json) ==
  IF ~JSONparse(json).ok \/ ~Prop(JSONparse(json).v, "meta").ok THEN Throws
  ELSE LET data == JSONparse(json).v
           m    == Prop(data, "meta")
           st   == Prop(data, "state")
       IN  [ok    |-> TRUE,
            name  |-> importName(m),
            theme |-> importTheme(m),
            state |-> Spread(defaultState, IF st.has THEN st.v ELSE data)]

ImportProject(json) ==
  /\ Called
  /\ hist' = << json >>
  /\ wrote' = << >>
  /\ IF ~ImportParse(json).ok
     THEN /\ step' = Step("importProject", 0, "threw")
          /\ UNCHANGED << localStorage, saveQueued, pendingSave, currentProjectId,
                          projects, appState, nextId, reqLog, lastDoc >>
     ELSE /\ nextId <= MaxNew
          /\ step' = Step("importProject", nextId,
                          IF exported # Undefined /\ json = exported.json
                          THEN "roundtrip" ELSE "")
          /\ LET r      == ImportParse(json)
                 newId  == nextId
                 projs1 == Append(projects,
                             ProjectMeta(newId, r.name, r.theme, now, now))
                 ls1    == saveCurrentProjectId(
                             saveProjectIndex(localStorage, projs1), newId)
             IN  Render(ls1, projs1, newId, applyState(r.state),
                        << PendingSave(newId, r.state) >>)
          /\ nextId' = nextId + 1
  /\ UNCHANGED << idb, initialized, effectPending, loads, boot, now, exported, sw >>

\* ------------------------------------------------------ load continuations
\* What runs when loadProjectState(l.id) returns state to its caller; ls1 is
\* localStorage as the load left it.
switchCurrentKeeps(l) == currentProjectId

\* setCurrentProjectId(id) in the callback of the load, batched with applyState
switchCurrent(l) == l.id

Continue(l, state, ls1) ==
  CASE l.op = "init" ->
         /\ appState' = applyState(state)
         /\ initialized' = TRUE
         /\ effectPending' = TRUE
         /\ boot' = [BootStart EXCEPT !.pc = "done"]
         /\ localStorage' = ls1
         /\ UNCHANGED << currentProjectId, saveQueued, pendingSave, reqLog,
                         lastDoc, exported >>
    [] l.op \in {"switch", "delete"} ->
         /\ appState' = applyState(state)
         /\ currentProjectId' = switchCurrent(l)
         /\ localStorage' = saveCurrentProjectId(ls1, l.id)
         /\ effectPending' = TRUE
         /\ UNCHANGED << initialized, boot, saveQueued, pendingSave, reqLog,
                         lastDoc, exported >>
    [] l.op = "dup" ->
         /\ Saves(<< PendingSave(l.aux.newId, state) >>)
         /\ localStorage' = ls1
         /\ UNCHANGED << appState, initialized, currentProjectId, effectPending,
                         boot, exported >>
    [] l.op = "export" ->
         /\ exported' = [json |-> JSONstringify([meta  |-> l.aux.meta,
                                                  state |-> Obj(state)]),
                         orig |-> l.aux.orig, id |-> l.id]
         /\ localStorage' = ls1
         /\ UNCHANGED << appState, initialized, currentProjectId, effectPending,
                         boot, saveQueued, pendingSave, reqLog, lastDoc >>

\* idbGet of the i-th load in flight resolved.
LoadResolve(i) ==
  /\ i \in DOMAIN loads
  /\ loads[i].awaiting = "get"
  /\ Did("loaded", loads[i].id, loads[i].op)
  /\ LET l == loads[i]
         r == LoadAfterGet(localStorage, idb, l.id)
     IN  IF r.await
         THEN /\ idb' = idbSet(idb, stateKeyFor(l.id), r.state)
              /\ wrote' = << Wr(stateKeyFor(l.id), r.state) >>
              /\ loads' = [loads EXCEPT ![i] = [l EXCEPT !.awaiting = "set",
                                                         !.state = r.state]]
              /\ UNCHANGED << localStorage, appState, initialized, currentProjectId,
                              effectPending, boot, saveQueued, pendingSave, reqLog,
                              lastDoc, exported >>
         ELSE /\ wrote' = << >>
              /\ loads' = RemoveAt(loads, i)
              /\ Continue(l, r.state, localStorage)
              /\ UNCHANGED idb
  /\ UNCHANGED << projects, nextId, now, ops, early, sw >>

\* The idbSet of the localStorage fallback resolved: the copy is removed and
\* loadProjectState returns.
LoadResume(i) ==
  /\ i \in DOMAIN loads
  /\ loads[i].awaiting = "set"
  /\ Did("loaded", loads[i].id, loads[i].op)
  /\ wrote' = << >>
  /\ loads' = RemoveAt(loads, i)
  /\ Continue(loads[i], loads[i].state,
              removeItem(localStorage, stateKeyFor(loads[i].id)))
  /\ UNCHANGED << idb, projects, nextId, now, ops, early, sw >>


Next ==
  \/ BootMount
  \/ BootMigrateResume
  \/ BootScanResume
  \/ Flush
  \/ RunEffect
  \/ \E f \in MutFields, v \in Vals : Mutate(f, v)
  \/ \E theme \in Vals : CreateProject("New", theme)
  \/ \E id \in KnownIds : SwitchProject(id)
  \/ \E id \in KnownIds : DeleteProject(id)
  \/ \E id \in KnownIds : DuplicateProject(id)
  \/ \E id \in KnownIds : RenameProject(id, "Renamed")
  \/ \E id \in KnownIds : ExportProject(id)
  \/ \E json \in ImportTexts : ImportProject(json)
  \/ \E i \in 1..(MaxLoads + 1) : LoadResolve(i)
  \/ \E i \in 1..(MaxLoads + 1) : LoadResume(i)

Spec == Init /\ [][Next]_vars

\* ================================================================ claims
\* What a load of project p would return from the two tiers as they stand.
LoadedDoc(p) == loadProjectState(localStorage, idb, p).state

\* The projects a save was requested for since the flush before last.
Requested == { p \in ProjectIds : reqLog.last[p] # Undefined }

Settled == loads = << >> /\ ~effectPending /\ ~saveQueued

\* C1 -- Coalesced save: when every save requested since the previous flush
\* was for one project, the flush makes exactly one idbSet call, under that
\* project's key, with the document of the last request.
CoalescedSave ==
  (step.op = "flush" /\ Cardinality(Requested) = 1)
    => \A p \in Requested : wrote = << Wr(stateKeyFor(p), reqLog.last[p]) >>

\* C1 witness: a flush after at least two requests with different documents
\* for the same project.
CoalescedSaveWitness ==
  /\ step.op = "flush"
  /\ Cardinality(Requested) = 1
  /\ reqLog.n >= 2
  /\ Len(wrote) = 1

\* C2 -- Last write wins per project: in a session whose operations are all
\* called after initialization, after a flush every project a save was
\* requested for since the previous flush loads as the document of its
\* latest request.
LastWriteWinsPerProject ==
  (~early /\ step.op = "flush")
    => \A p \in Requested : LoadedDoc(p) = reqLog.last[p]

\* C3 -- Switch-flush ordering: in a session whose operations are all called
\* after initialization, once a switch away from a project has completed and
\* nothing is pending, that project loads as the document of the last save
\* call made for it.
SwitchFlushOrdering ==
  (~early /\ sw # Undefined /\ Settled)
    => LoadedDoc(sw.from) = lastDoc[sw.from]

\* C4 -- Last-project protection: deleteProject called while the persisted
\* Registry holds exactly one entry changes neither tier, nor the current
\* project, the document in memory, the project list or the pending save.
LastProjectProtection ==
  [][ (step'.op = "deleteProject" /\ Len(loadProjectIndex(localStorage)) = 1)
        => UNCHANGED << localStorage, idb, currentProjectId, appState, projects,
                        initialized, saveQueued, pendingSave, loads >> ]_vars

\* C4 witness: a refused deleteProject on a Registry of one entry.
LastProjectProtectionWitness ==
  /\ step.op = "deleteProject"
  /\ step.flag = "refused"
  /\ Len(loadProjectIndex(localStorage)) = 1

\* C5 -- Once migration has completed the persisted Registry is never empty.
MigrationDone == boot.pc \notin {"mount", "migrateAwait"}
RegistryNeverEmpty ==
  MigrationDone => Len(loadProjectIndex(localStorage)) >= 1

\* C6 -- Export/import round trip: in a session whose operations are all
\* called after initialization, the document importProject asks to persist
\* for the text the last exportProject returned is the document the exported
\* project had when exportProject was called.
ExportImportRoundTrip ==
  (~early /\ step.op = "importProject" /\ step.flag = "roundtrip")
    => /\ pendingSave # Null
       /\ pendingSave.state = exported.orig

\* The document createProject persists for a project of the given theme.
CreatedDoc(theme) == [defaultState EXCEPT !["researchTheme"] = theme]

\* C11 -- Create then switch away: in a session whose operations are all
\* called after initialization, once a switch away from a project that still
\* has the document createProject gave it has completed and nothing is
\* pending, the bulk tier holds under that project's id the defaults with
\* researchTheme set to the project's theme.
CreateThenSwitchPersists ==
  (/\ ~early
   /\ sw # Undefined
   /\ Settled
   /\ sw.from # DEFAULT_PROJECT_ID
   /\ Find(loadProjectIndex(localStorage), sw.from) # Undefined
   /\ lastDoc[sw.from] =
        CreatedDoc(Find(loadProjectIndex(localStorage), sw.from).theme))
    => idbGet(idb, stateKeyFor(sw.from)) = Obj(lastDoc[sw.from])

\* C12 -- Duplicate copies the source: in a session whose operations are all
\* called after initialization, the document duplicateProject asks to persist
\* under the new id when its load resolves is the document the source
\* project had when duplicateProject was called (the document in memory when
\* the source is the current project).
DuplicateCopiesSource ==
  [][ \A i \in DOMAIN loads :
        (/\ ~early
         /\ loads[i].op = "dup"
         /\ step'.op = "loaded"
         /\ step'.flag = "dup"
         /\ Len(loads') < Len(loads)
         /\ pendingSave' # Null
         /\ pendingSave'.projectId = loads[i].aux.newId)
          => pendingSave'.state = loads[i].aux.orig ]_vars

\* ============================================= the functions on their own
\* Everything but the two tiers and the history of the runs.
idle ==
  << saveQueued, pendingSave, initialized, currentProjectId, projects, appState,
     effectPending, loads, boot, nextId, ops, early, exported, step, wrote,
     reqLog, lastDoc, sw >>

InitIdle ==
  /\ InitMemory
  /\ nextId = 1
  /\ ops = 0
  /\ early = FALSE
  /\ exported = Undefined
  /\ step = Step("init", 0, "")
  /\ wrote = << >>
  /\ reqLog = EmptyLog
  /\ lastDoc = [i \in ProjectIds |-> Undefined]
  /\ sw = Undefined

Tiers == [ls |-> localStorage, db |-> idb]

\* ---- migrateIfNeeded, run up to MigrateRuns times in a row
MigrateRuns == 2

\* A Registry of one or two projects, as an earlier session left it.
Registries ==
  { << ProjectMeta(DEFAULT_PROJECT_ID, "Default", th, 0, 0) >> : th \in Vals }
    \cup { << ProjectMeta(1, "New", 0, 0, 0),
              ProjectMeta(DEFAULT_PROJECT_ID, "Default", th, 0, 0) >> : th \in Vals }

\* First visits (no Registry, at most the legacy blob) and later visits (a
\* Registry, a pointer, documents in the bulk tier, possibly a stale legacy
\* blob).
InitMigrate ==
  /\ InitIdle
  /\ now \in 0..1
  /\ hist = << >>
  /\ \/ /\ localStorage \in { LegacyStorage(b) : b \in LegacyBlobs }
        /\ idb = EmptyIdb
     \/ /\ \E reg \in Registries, b \in LegacyBlobs, cur \in 0..1 :
             localStorage =
               saveCurrentProjectId(saveProjectIndex(LegacyStorage(b), reg), cur)
        /\ \E d \in PartialDocs(MutFields) :
             idb = idbSet(EmptyIdb, stateKeyFor(DEFAULT_PROJECT_ID),
                          Spread(defaultState, Obj(d)))

MigrateRun ==
  /\ Len(hist) < MigrateRuns
  /\ LET r == migrateIfNeeded(localStorage, idb, now)
     IN  /\ localStorage' = r.ls
         /\ idb' = r.db
         /\ hist' = Append(hist, Tiers)
  /\ now' \in {now, now + 1}
  /\ UNCHANGED idle

SpecMigrate == InitMigrate /\ [][MigrateRun]_vars

\* ---- loadProjectState of one project
\* Stored documents: any subset of the 13 fields, one token for the fields
\* that are there.
StoredDocs == { [f \in D |-> v] : D \in SUBSET Fields, v \in Vals }

\* The document sits in the bulk tier, or only in localStorage (as JSON text,
\* or as a text that does not parse), or nowhere.
InitLoad ==
  /\ InitIdle
  /\ now = 0
  /\ \E p \in ProjectIds :
       \/ \E d \in StoredDocs :
            /\ hist = << [id |-> p, stored |-> Obj(d), tier |-> "idb"] >>
            /\ idb = [EmptyIdb EXCEPT ![stateKeyFor(p)] = Obj(d)]
            /\ localStorage = EmptyLs
       \/ \E d \in StoredDocs :
            /\ hist = << [id |-> p, stored |-> Obj(d), tier |-> "localStorage"] >>
            /\ idb = EmptyIdb
            /\ localStorage = setItem(EmptyLs, stateKeyFor(p), Text(Obj(d)))
       \/ \E raw \in {Null, Empty, Garbage} :
            /\ hist = << [id |-> p, stored |-> Undefined, tier |-> "none"] >>
            /\ idb = EmptyIdb
            /\ localStorage = setItem(EmptyLs, stateKeyFor(p), raw)

LoadRun ==
  /\ Len(hist) = 1
  /\ LET r == loadProjectState(localStorage, idb, hist[1].id)
     IN  /\ localStorage' = r.ls
         /\ idb' = r.db
         /\ hist' = Append(hist, r.state)
  /\ UNCHANGED now
  /\ UNCHANGED idle

SpecLoad == InitLoad /\ [][LoadRun]_vars

\* ---- saveProjectState and the frame it schedules
\* The documents callers hand to saveProjectState: they differ in one field.
Docs == { [defaultState EXCEPT !["researchTheme"] = v] : v \in Vals }

InitSave ==
  /\ InitIdle
  /\ now = 0
  /\ hist = << >>
  /\ localStorage = EmptyLs
  /\ idb = EmptyIdb

SaveCall(projectId, state) ==
  /\ ops < MaxOps
  /\ ops' = ops + 1
  /\ Saves(<< PendingSave(projectId, state) >>)
  /\ Did("saveProjectState", projectId, "")
  /\ wrote' = << >>
  /\ UNCHANGED << localStorage, idb, initialized, currentProjectId, projects,
                  appState, effectPending, loads, boot, nextId, now, early,
                  exported, sw >>

NextSave ==
  \/ \E p \in ProjectIds, d \in Docs : SaveCall(p, d)
  \/ Flush

SpecSave == InitSave /\ [][NextSave]_vars

\* ---- deleteProject on an initialized provider
\* The provider after its mount effect, over a Registry of one or two
\* projects with their documents in the bulk tier; the current project's
\* document is in memory.
InitDelete ==
  /\ nextId = 2
  /\ now = 0
  /\ ops = 0
  /\ early = FALSE
  /\ exported = Undefined
  /\ InitHistory
  /\ saveQueued = FALSE
  /\ pendingSave = Null
  /\ initialized = TRUE
  /\ effectPending = FALSE
  /\ loads = << >>
  /\ boot = [BootStart EXCEPT !.pc = "done"]
  /\ \E reg \in Registries, d \in Docs :
       /\ projects = reg
       /\ currentProjectId \in { reg[i].id : i \in DOMAIN reg }
       /\ localStorage =
            saveCurrentProjectId(saveProjectIndex(EmptyLs, reg), currentProjectId)
       /\ appState = d
       /\ idb = [k \in IdbKeys |->
                  IF k = stateKeyFor(currentProjectId) THEN Obj(d)
                  ELSE IF \E i \in DOMAIN reg : k = stateKeyFor(reg[i].id)
                       THEN Obj(defaultState)
                       ELSE Undefined]

NextDelete ==
  \/ \E id \in ProjectIds : DeleteProject(id)
  \/ \E i \in 1..(MaxLoads + 1) : LoadResolve(i)
  \/ RunEffect
  \/ Flush

SpecDelete == InitDelete /\ [][NextDelete]_vars

\* ---- duplicateProject on an initialized provider
\* The same starting states; the user edits the theme and duplicates projects.
NextDuplicate ==
  \/ \E id \in ProjectIds : DuplicateProject(id)
  \/ \E v \in Vals : Mutate("researchTheme", v)
  \/ \E i \in 1..(MaxLoads + 1) : LoadResolve(i)
  \/ Flush

SpecDuplicate == InitDelete /\ [][NextDuplicate]_vars

\* ---- the same, with animation frames that keep firing and reads that resolve
SpecPersist ==
  /\ InitDelete
  /\ [][NextDuplicate]_vars
  /\ WF_vars(Flush)
  /\ WF_vars(\E i \in 1..(MaxLoads + 1) : LoadResolve(i))

\* ---- edits and flushes while the clock runs
\* new Date() gives a later time at a later step.
MaxNow == 2

Tick ==
  /\ now < MaxNow
  /\ now' = now + 1
  /\ Did("tick", 0, "")
  /\ wrote' = << >>
  /\ UNCHANGED << localStorage, idb, saveQueued, pendingSave, initialized,
                  currentProjectId, projects, appState, effectPending, loads,
                  boot, nextId, ops, early, exported, reqLog, lastDoc, sw >>

NextStamp ==
  \/ Tick
  \/ \E v \in Vals : Mutate("researchTheme", v)
  \/ Flush

SpecStamp == InitDelete /\ [][NextStamp]_vars

\* ---- switchProject on an initialized provider
\* The same starting states; the user edits the theme and switches projects.
NextSwitch ==
  \/ \E id \in ProjectIds : SwitchProject(id)
  \/ \E v \in Vals : Mutate("researchTheme", v)
  \/ \E i \in 1..(MaxLoads + 1) : LoadResolve(i)
  \/ RunEffect
  \/ Flush

SpecSwitch == InitDelete /\ [][NextSwitch]_vars

\* ---- switchProject among three projects
\* An initialized provider with three projects, each with its document in
\* the bulk tier.
InitThree ==
  /\ nextId = 3
  /\ now = 0
  /\ ops = 0
  /\ early = FALSE
  /\ exported = Undefined
  /\ InitHistory
  /\ saveQueued = FALSE
  /\ pendingSave = Null
  /\ initialized = TRUE
  /\ effectPending = FALSE
  /\ loads = << >>
  /\ boot = [BootStart EXCEPT !.pc = "done"]
  /\ projects = << ProjectMeta(2, "New", 0, 0, 0), ProjectMeta(1, "New", 0, 0, 0),
                   ProjectMeta(DEFAULT_PROJECT_ID, "Default", 0, 0, 0) >>
  /\ currentProjectId \in 0..2
  /\ localStorage =
       saveCurrentProjectId(saveProjectIndex(EmptyLs, projects), currentProjectId)
  /\ appState \in Docs
  /\ idb = [k \in IdbKeys |->
              IF k = stateKeyFor(currentProjectId) THEN Obj(appState)
              ELSE Obj(defaultState)]

SpecOverlap == InitThree /\ [][NextSwitch]_vars

\* ---- importProject on an initialized provider
\* Texts a user may pick: an export, a bare document, exports whose meta
\* lacks the theme or the name or is null, a text that is not JSON, and the
\* text "null".
ImportFiles ==
  { JSONstringify([meta  |-> ProjectMeta(1, "New", MaxVal, 0, 0),
                   state |-> Obj([defaultState EXCEPT !["researchTheme"] = MaxVal])]),
    Text(Obj([researchTheme |-> MaxVal])),
    JSONstringify([meta |-> [name |-> "Renamed"], state |-> Obj([conditions |-> MaxVal])]),
    JSONstringify([meta |-> [theme |-> MaxVal], state |-> Obj(defaultState)]),
    JSONstringify([meta |-> Null, state |-> Obj([conditions |-> MaxVal])]),
    Garbage,
    Text(Null) }

NextImport ==
  \/ \E json \in ImportFiles : ImportProject(json)
  \/ \E v \in Vals : Mutate("researchTheme", v)
  \/ Flush

SpecImport == InitDelete /\ [][NextImport]_vars

\* ---- deleteProject among edits and new projects
\* The same starting states; the user edits the theme, creates projects and
\* deletes projects.
NextRemove ==
  \/ \E id \in ProjectIds : DeleteProject(id)
  \/ CreateProject("New", 0)
  \/ Mutate("researchTheme", MaxVal)
  \/ \E i \in 1..(MaxLoads + 1) : LoadResolve(i)
  \/ RunEffect
  \/ Flush

SpecRemove == InitDelete /\ [][NextRemove]_vars

\* ---- switchProject and deleteProject together
\* The same starting states; the user switches projects and deletes projects.
NextReplace ==
  \/ \E id \in KnownIds : SwitchProject(id)
  \/ \E id \in KnownIds : DeleteProject(id)
  \/ \E i \in 1..(MaxLoads + 1) : LoadResolve(i)
  \/ RunEffect
  \/ Flush

SpecReplace == InitDelete /\ [][NextReplace]_vars

\* ---- the mount effect over a string store that raises
\* localStorage works ("ok"), its setItem raises ("quota": quota exceeded),
\* or every access to it raises ("denied": storage disabled).
getItemUnder(mode, ls, key) ==
  IF mode = "denied" THEN Throws ELSE Ret(getItem(ls, key))

setItemUnder(mode, ls, key, value) ==
  IF mode = "ok" THEN Ret(setItem(ls, key, value)) ELSE Throws

\* try { getItem, JSON.parse } catch { } return [];
loadProjectIndexUnder(mode, ls) ==
  IF getItemUnder(mode, ls, PROJECTS_INDEX_KEY).ok THEN loadProjectIndex(ls)
  ELSE << >>

\* try { setItem } catch { }
saveProjectIndexUnder(mode, ls, projs) ==
  IF setItemUnder(mode, ls, PROJECTS_INDEX_KEY, Text(Arr(projs))).ok
  THEN saveProjectIndex(ls, projs)
  ELSE ls

\* no try: the getItem is not guarded
loadCurrentProjectIdUnder(mode, ls) ==
  IF getItemUnder(mode, ls, CURRENT_PROJECT_KEY).ok
  THEN Ret(loadCurrentProjectId(ls))
  ELSE Throws

\* no try: the setItem is not guarded
saveCurrentProjectIdUnder(mode, ls, id) ==
  IF setItemUnder(mode, ls, CURRENT_PROJECT_KEY, IdText(id)).ok
  THEN Ret(saveCurrentProjectId(ls, id))
  ELSE Throws

\* migrateIfNeeded with nothing interleaved: whether it returned or raised,
\* and the tiers it left.
migrateIfNeededUnder(mode, ls, db, t) ==
  IF Len(loadProjectIndexUnder(mode, ls)) > 0
  THEN [ok |-> TRUE, ls |-> ls, db |-> db]
  ELSE IF ~getItemUnder(mode, ls, LEGACY_STORAGE_KEY).ok
  THEN [ok |-> FALSE, ls |-> ls, db |-> db]
  ELSE LET legacyRaw == getItem(ls, LEGACY_STORAGE_KEY)
           ls1 == IF Truthy(legacyRaw) THEN removeItem(ls, LEGACY_STORAGE_KEY)
                  ELSE ls
           ls2 == saveProjectIndexUnder(mode, ls1, << MigrateMeta(ls, t) >>)
           r   == saveCurrentProjectIdUnder(mode, ls2, DEFAULT_PROJECT_ID)
       IN  [ok |-> r.ok,
            ls |-> IF r.ok THEN r.v ELSE ls2,
            db |-> MigrateIdb(ls, db)]

\* The loop of the mount effect from entry i on, to its end.
RECURSIVE ScanAll(_, _, _, _)
ScanAll(ls, db, list, i) ==
  LET j == ScanNext(ls, list, i)
  IN  IF j = 0 THEN [ls |-> ls, db |-> db]
      ELSE ScanAll(removeItem(ls, stateKeyFor(list[j].id)),
                   idbSet(db, stateKeyFor(list[j].id),
                          Spread(defaultState,
                                 JSONparse(getItem(ls, stateKeyFor(list[j].id))).v)),
                   list, j + 1)

\* The storage a visit finds, and how the string store behaves during it.
InitMountUnder ==
  /\ InitIdle
  /\ now = 0
  /\ \E mode \in {"ok", "quota", "denied"} : hist = << [mode |-> mode] >>
  /\ \/ /\ localStorage \in { LegacyStorage(b) : b \in LegacyBlobs }
        /\ idb = EmptyIdb
     \/ /\ \E reg \in Registries, cur \in 0..1 :
             localStorage = saveCurrentProjectId(saveProjectIndex(EmptyLs, reg), cur)
        /\ \E d \in PartialDocs(MutFields) :
             idb = idbSet(EmptyIdb, stateKeyFor(DEFAULT_PROJECT_ID),
                          Spread(defaultState, Obj(d)))
     \/ /\ localStorage \in { OlderStorage(Text(Obj(d))) : d \in PartialDocs(MutFields) }
        /\ idb = EmptyIdb

\* The mount effect run to its end or to the first error it does not catch.
MountUnder ==
  /\ Len(hist) = 1
  /\ LET mode == hist[1].mode
         m    == migrateIfNeededUnder(mode, localStorage, idb, now)
         p    == loadCurrentProjectIdUnder(mode, m.ls)
         list == loadProjectIndexUnder(mode, m.ls)
         sc   == ScanAll(m.ls, m.db, list, 1)
         ld   == loadProjectState(sc.ls, sc.db, p.v)
     IN  IF ~m.ok \/ ~p.ok
         THEN /\ localStorage' = m.ls
              /\ idb' = m.db
              /\ hist' = Append(hist, [raised |-> TRUE])
              /\ UNCHANGED << initialized, currentProjectId, projects, appState >>
         ELSE /\ localStorage' = ld.ls
              /\ idb' = ld.db
              /\ currentProjectId' = p.v
              /\ projects' = list
              /\ appState' = applyState(ld.state)
              /\ initialized' = TRUE
              /\ hist' = Append(hist, [raised |-> FALSE])
  /\ UNCHANGED << saveQueued, pendingSave, effectPending, loads, boot, nextId,
                  now, ops, early, exported, step, wrote, reqLog, lastDoc, sw >>

SpecMountUnder == InitMountUnder /\ [][MountUnder]_vars

\* ---- the three moves of a document into the bulk tier, with a write that fails
\* What an idbSet call does: it writes ("written"); it fails and swallows
\* the failure ("dropped": the promise resolves, nothing is written); it
\* fails and the promise rejects ("rejected").
idbSetUnder(outcome, db, key, value) ==
  IF outcome = "written" THEN Ret(idbSet(db, key, value))
  ELSE IF outcome = "dropped" THEN Ret(db)
  ELSE Throws

\* migrateIfNeeded: the removeItem of the legacy key follows the try block.
migrateIfNeededBulk(outcome, ls, db, t) ==
  IF ~MigrateNeeded(ls) THEN [ls |-> ls, db |-> db]
  ELSE LET w == IF MigrateWrites(ls)
                THEN idbSetUnder(outcome, db, stateKeyFor(DEFAULT_PROJECT_ID),
                       Spread(defaultState,
                              JSONparse(getItem(ls, LEGACY_STORAGE_KEY)).v))
                ELSE Ret(db)
       IN  [ls |-> MigrateFinish(ls, MigrateMeta(ls, t)),
            db |-> IF w.ok THEN w.v ELSE db]

\* The loop of the mount effect: the removeItem is inside the try block,
\* after the await.
RECURSIVE ScanAllBulk(_, _, _, _, _)
ScanAllBulk(outcome, ls, db, list, i) ==
  LET j == ScanNext(ls, list, i)
      w == idbSetUnder(outcome, db, stateKeyFor(list[j].id),
             Spread(defaultState,
                    JSONparse(getItem(ls, stateKeyFor(list[j].id))).v))
  IN  IF j = 0 THEN [ls |-> ls, db |-> db]
      ELSE IF w.ok
      THEN ScanAllBulk(outcome, removeItem(ls, stateKeyFor(list[j].id)), w.v,
                       list, j + 1)
      ELSE ScanAllBulk(outcome, ls, db, list, j + 1)

\* loadProjectState: the removeItem is inside the try block, after the await.
loadProjectStateBulk(outcome, ls, db, projectId) ==
  LET r == LoadAfterGet(ls, db, projectId)
      w == idbSetUnder(outcome, db, stateKeyFor(projectId), r.state)
  IN  IF ~r.await THEN [state |-> r.state, ls |-> ls, db |-> db]
      ELSE IF w.ok
      THEN [state |-> r.state,
            ls |-> removeItem(ls, stateKeyFor(projectId)), db |-> w.v]
      ELSE [state |-> defaultState, ls |-> ls, db |-> db]

\* A legacy blob or an older per-project document in localStorage, an empty
\* bulk tier, and what the idbSet calls of the run will do.
InitBulk ==
  /\ InitIdle
  /\ now = 0
  /\ idb = EmptyIdb
  /\ \/ localStorage \in { LegacyStorage(b) : b \in LegacyBlobs }
     \/ localStorage \in { OlderStorage(Text(Obj(d))) : d \in PartialDocs(MutFields) }
     \/ localStorage \in { OlderStorage(raw) : raw \in {Null, Empty, Garbage} }
  /\ \E o \in {"written", "dropped", "rejected"} : hist = << [outcome |-> o, ls |-> localStorage] >>

MigrateBulk ==
  /\ Len(hist) = 1
  /\ LET r == migrateIfNeededBulk(hist[1].outcome, localStorage, idb, now)
     IN /\ localStorage' = r.ls
        /\ idb' = r.db
  /\ hist' = Append(hist, [op |-> "migrate"])
  /\ UNCHANGED now
  /\ UNCHANGED idle

ScanBulk ==
  /\ Len(hist) = 1
  /\ LET r == ScanAllBulk(hist[1].outcome, localStorage, idb,
                           loadProjectIndex(localStorage), 1)
     IN /\ localStorage' = r.ls
        /\ idb' = r.db
  /\ hist' = Append(hist, [op |-> "scan"])
  /\ UNCHANGED now
  /\ UNCHANGED idle

LoadBulk ==
  /\ Len(hist) = 1
  /\ LET r == loadProjectStateBulk(hist[1].outcome, localStorage, idb,
                                    loadCurrentProjectId(localStorage))
     IN /\ localStorage' = r.ls
        /\ idb' = r.db
  /\ hist' = Append(hist, [op |-> "load"])
  /\ UNCHANGED now
  /\ UNCHANGED idle

NextBulk == MigrateBulk \/ ScanBulk \/ LoadBulk

SpecBulk == InitBulk /\ [][NextBulk]_vars

\* ---- GenerateSection.handleGenerate against a generation service that may fail
SPECTRUM_STEP_OPTIONS == {2, 3, 5, 7}

\* Math.round((i / (steps - 1)) * 100) for i = 0 .. steps - 1
generateSpectrumSteps(steps) ==
  IF steps <= 1 THEN << 50 >>
  ELSE [k \in 1..steps |-> (200 * (k - 1) + (steps - 1)) \div (2 * (steps - 1))]

\* What one request to /api/generate comes to: fetch or res.json() raises, or
\* there is a response with its ok flag and with or without an image.
Responses ==
  { [raises |-> TRUE, ok |-> FALSE, image |-> FALSE] }
    \cup { [raises |-> FALSE, ok |-> o, image |-> im] : o \in BOOLEAN, im \in BOOLEAN }

\* res.ok && data.image, inside the try block
stepSucceeded(resp) == ~resp.raises /\ resp.ok /\ resp.image

\* The image of the step with this ratio, and a job holding images.
GeneratedImage(ratio) == [ratio |-> ratio]
GenerateJob(images) == [images |-> images]

\* addGenerateJob: setGenerateJobs(prev => [...prev, job])
addGenerateJob(doc, job) ==
  [doc EXCEPT !["generateJobs"] = Append(@, job)]

jobWantedAlways(jobImages) == TRUE
\* if (jobImages.length > 0)
jobWanted(jobImages) == Len(jobImages) > 0


\* An initialized provider whose document holds no job or one job, and the
\* section idle.
InitSection ==
  /\ nextId = 1
  /\ now = 0
  /\ ops = 0
  /\ early = FALSE
  /\ exported = Undefined
  /\ localStorage = EmptyLs
  /\ idb = EmptyIdb
  /\ saveQueued = FALSE
  /\ pendingSave = Null
  /\ initialized = TRUE
  /\ currentProjectId = DEFAULT_PROJECT_ID
  /\ projects = << >>
  /\ effectPending = FALSE
  /\ loads = << >>
  /\ boot = [BootStart EXCEPT !.pc = "done"]
  /\ step = Step("init", 0, "")
  /\ wrote = << >>
  /\ reqLog = EmptyLog
  /\ lastDoc = [i \in ProjectIds |-> Undefined]
  /\ sw = Undefined
  /\ \E jobs \in { << >>, << GenerateJob(<< GeneratedImage(50) >>) >> } :
       appState = [defaultState EXCEPT !["generateJobs"] = jobs]
  /\ hist =
       [pc |-> "idle", isGenerating |-> FALSE, genError |-> "null",
        spectrumImages |-> << >>, currentGenStep |-> -1, canSpectrum |-> FALSE,
        ratios |-> << >>, i |-> 0, jobImages |-> << >>,
        seen |-> << >>, doc0 |-> defaultState]

sectionRest ==
  << localStorage, idb, saveQueued, pendingSave, initialized, currentProjectId,
     projects, effectPending, loads, boot, nextId, now, ops, early, exported,
     step, wrote, reqLog, lastDoc, sw >>

\* handleGenerate up to its first await.
HandleGenerate(canSpectrum, spectrumSteps) ==
  /\ hist.pc = "idle"
  /\ ~hist.isGenerating
  /\ LET ratios == IF canSpectrum THEN generateSpectrumSteps(spectrumSteps)
                   ELSE << 50 >>
     IN  hist' = [pc |-> "fetch", isGenerating |-> TRUE, genError |-> "null",
                  spectrumImages |->
                    [k \in DOMAIN ratios |-> [ratio |-> ratios[k], image |-> Null]],
                  currentGenStep |-> 0, canSpectrum |-> canSpectrum,
                  ratios |-> ratios, i |-> 1, jobImages |-> << >>,
                  seen |-> << >>, doc0 |-> appState]
  /\ UNCHANGED appState
  /\ UNCHANGED sectionRest

\* The request of the step has settled: the rest of the try block, and
\* either the next timer or the end of the handler.
FetchSettles(resp) ==
  /\ hist.pc = "fetch"
  /\ LET i      == hist.i
         img    == GeneratedImage(hist.ratios[i])
         good   == stepSucceeded(resp)
         images == IF good THEN Append(hist.jobImages, img) ELSE hist.jobImages
         shown  == IF good
                   THEN [hist.spectrumImages EXCEPT ![i] = [@ EXCEPT !.image = img]]
                   ELSE hist.spectrumImages
         error  == IF good THEN hist.genError
                   ELSE IF resp.raises THEN "network" ELSE "failed"
         last   == i = Len(hist.ratios)
     IN  /\ hist' = [hist EXCEPT
                       !.pc = IF last THEN "done" ELSE "wait",
                       !.jobImages = images,
                       !.spectrumImages = shown,
                       !.genError = error,
                       !.seen = Append(@, resp),
                       !.isGenerating = IF last THEN FALSE ELSE @,
                       !.currentGenStep = IF last THEN -1 ELSE @]
         /\ appState' =
              IF ~hist.canSpectrum
              THEN IF good THEN addGenerateJob(appState, GenerateJob(<< img >>))
                   ELSE appState
              ELSE IF last /\ jobWanted(images)
                   THEN addGenerateJob(appState, GenerateJob(images))
                   ELSE appState
  /\ UNCHANGED sectionRest

\* The 8 s pause before the next step is over; the next request is sent.
TimerFires ==
  /\ hist.pc = "wait"
  /\ hist' = [hist EXCEPT !.pc = "fetch", !.i = @ + 1, !.currentGenStep = hist.i]
  /\ UNCHANGED appState
  /\ UNCHANGED sectionRest

NextGenerate ==
  \/ \E c \in BOOLEAN, n \in SPECTRUM_STEP_OPTIONS : HandleGenerate(c, n)
  \/ \E resp \in Responses : FetchSettles(resp)
  \/ TimerFires

SpecGenerate == InitSection /\ [][NextGenerate]_vars

\* ---- FilterSection.handleGenerateDetails: the chain of five detail stages
DETAIL_STAGES == << "diagram", "concept", "material", "exterior", "interior" >>

\* The route answers with data:<mime>;base64,<data>; dataUrlToRef gives null
\* for anything else and the filter drops the nulls.
dataUrlToRef(ref) ==
  IF ref.dataUrl = "data" THEN [key |-> ref.key] ELSE Null

referenceImagesOf(generatedRefs) ==
  SelectSeq([k \in DOMAIN generatedRefs |-> dataUrlToRef(generatedRefs[k])],
            LAMBDA r : r # Null)

\* const useReferences = i >= 3, for i counted from 0
useReferences(i) == i >= 4

\* The request of stage i as it is sent.
DetailRequest(i, generatedRefs) ==
  [stage |-> DETAIL_STAGES[i],
   referenceImages |-> IF useReferences(i) THEN referenceImagesOf(generatedRefs)
                       ELSE << >>]


\* The section idle, with or without a refined concept.
InitFilter ==
  /\ nextId = 1
  /\ now = 0
  /\ ops = 0
  /\ early = FALSE
  /\ exported = Undefined
  /\ localStorage = EmptyLs
  /\ idb = EmptyIdb
  /\ saveQueued = FALSE
  /\ pendingSave = Null
  /\ initialized = TRUE
  /\ currentProjectId = DEFAULT_PROJECT_ID
  /\ projects = << >>
  /\ effectPending = FALSE
  /\ loads = << >>
  /\ boot = [BootStart EXCEPT !.pc = "done"]
  /\ step = Step("init", 0, "")
  /\ wrote = << >>
  /\ reqLog = EmptyLog
  /\ lastDoc = [i \in ProjectIds |-> Undefined]
  /\ sw = Undefined
  /\ appState \in { [defaultState EXCEPT !["refinedConcept"] = v] : v \in 0..1 }
  /\ hist =
       [pc |-> "idle", isGeneratingDetails |-> FALSE, currentStageIndex |-> -1,
        i |-> 0, generatedRefs |-> << >>, requests |-> << >>, seen |-> << >>,
        stageStatus |-> [k \in 1..Len(DETAIL_STAGES) |-> "none"]]

\* handleGenerateDetails up to the fetch of the first stage.
HandleGenerateDetails ==
  /\ hist.pc = "idle"
  /\ ~hist.isGeneratingDetails
  /\ hist' = IF appState["refinedConcept"] = 0
             THEN [hist EXCEPT !.pc = "done"]
             ELSE [pc |-> "fetch", isGeneratingDetails |-> TRUE,
                   currentStageIndex |-> 0, i |-> 1, generatedRefs |-> << >>,
                   requests |-> << DetailRequest(1, << >>) >>, seen |-> << >>,
                   stageStatus |-> [k \in 1..Len(DETAIL_STAGES) |->
                                     IF k = 1 THEN "loading" ELSE "none"]]
  /\ UNCHANGED appState
  /\ UNCHANGED sectionRest

\* The request of the stage has settled: the rest of the try block, then the
\* pause before the next stage or the end of the handler.
DetailSettles(resp) ==
  /\ hist.pc = "fetch"
  /\ LET i    == hist.i
         good == stepSucceeded(resp)
         last == i = Len(DETAIL_STAGES)
     IN  hist' = [hist EXCEPT
                    !.pc = IF last THEN "done" ELSE "wait",
                    !.seen = Append(@, resp),
                    !.stageStatus[i] = IF good THEN "image" ELSE "error",
                    !.generatedRefs =
                       IF good THEN Append(@, [key |-> DETAIL_STAGES[i], dataUrl |-> "data"])
                       ELSE @,
                    !.isGeneratingDetails = IF last THEN FALSE ELSE @,
                    !.currentStageIndex = IF last THEN -1 ELSE @]
  /\ UNCHANGED appState
  /\ UNCHANGED sectionRest

\* The 8 s pause is over: the next stage is set loading and requested.
DetailTimer ==
  /\ hist.pc = "wait"
  /\ hist' = [hist EXCEPT
                 !.pc = "fetch",
                 !.i = @ + 1,
                 !.currentStageIndex = hist.i,
                 !.stageStatus[hist.i + 1] = "loading",
                 !.requests = Append(@, DetailRequest(hist.i + 1, hist.generatedRefs))]
  /\ UNCHANGED appState
  /\ UNCHANGED sectionRest

NextDetails ==
  \/ HandleGenerateDetails
  \/ \E resp \in Responses : DetailSettles(resp)
  \/ DetailTimer

SpecDetails == InitFilter /\ [][NextDetails]_vars

\* ---- DistillSection.handleEvaluate while projects are switched
\* The list [...prev, result] as a number: the token of the list as it was
\* loaded, and above it one digit per result appended, the latest lowest.
\* The digit of a result is the project that was current when its request
\* was sent, plus one.
ResultBase == MaxVal + 1
OriginBase == MaxNew + 2

withResult(prev, origin) ==
  (prev % ResultBase)
    + ResultBase * ((prev \div ResultBase) * OriginBase + origin + 1)

RECURSIVE OriginDigits(_)
OriginDigits(n) ==
  IF n = 0 THEN {}
  ELSE {(n % OriginBase) - 1} \cup OriginDigits(n \div OriginBase)

\* The projects under which the results of the list were requested.
resultOrigins(list) == OriginDigits(list \div ResultBase)

\* An initialized provider with two projects; the document of the current
\* one holds a refined concept and detail images.
InitEvaluate ==
  /\ nextId = 2
  /\ now = 0
  /\ ops = 0
  /\ early = FALSE
  /\ exported = Undefined
  /\ InitHistory
  /\ saveQueued = FALSE
  /\ pendingSave = Null
  /\ initialized = TRUE
  /\ effectPending = FALSE
  /\ loads = << >>
  /\ boot = [BootStart EXCEPT !.pc = "done"]
  /\ \E th \in Vals, cur \in 0..1 :
       LET reg == << ProjectMeta(1, "New", 0, 0, 0),
                     ProjectMeta(DEFAULT_PROJECT_ID, "Default", th, 0, 0) >>
           doc == [defaultState EXCEPT !["researchTheme"] = th,
                                       !["refinedConcept"] = 1,
                                       !["detailImages"] = 1]
       IN  /\ projects = reg
           /\ currentProjectId = cur
           /\ localStorage =
                saveCurrentProjectId(saveProjectIndex(EmptyLs, reg), cur)
           /\ appState = doc
           /\ idb = [k \in IdbKeys |->
                      IF k = stateKeyFor(cur) THEN Obj(doc)
                      ELSE IF k = stateKeyFor(1 - cur) THEN Obj(defaultState)
                      ELSE Undefined]

\* handleEvaluate up to the await of the request; hist holds the requests
\* in flight.
HandleEvaluate ==
  /\ Called
  /\ hist = << >>
  /\ appState["refinedConcept"] # 0
  /\ appState["detailImages"] # 0
  /\ hist' = << [origin |-> currentProjectId] >>
  /\ step' = Step("handleEvaluate", currentProjectId, "")
  /\ wrote' = << >>
  /\ UNCHANGED << localStorage, idb, saveQueued, pendingSave, initialized,
                  currentProjectId, projects, appState, effectPending, loads,
                  boot, nextId, now, exported, reqLog, lastDoc, sw >>

\* The request has settled; addEvaluationResult on success, then the
\* re-render and the persist effect.
EvaluateSettles(resp) ==
  /\ hist # << >>
  /\ ~effectPending
  /\ hist' = << >>
  /\ step' = Step("evaluated", hist[1].origin, "")
  /\ wrote' = << >>
  /\ IF ~resp.raises /\ resp.ok /\ resp.image
     THEN Render(localStorage, projects, currentProjectId,
                 [appState EXCEPT !["evaluationResults"] =
                    withResult(@, hist[1].origin)], << >>)
     ELSE UNCHANGED << localStorage, projects, currentProjectId, appState,
                       saveQueued, pendingSave, reqLog, lastDoc >>
  /\ UNCHANGED << idb, initialized, effectPending, loads, boot, nextId, now,
                  ops, early, exported, sw >>

NextEvaluate ==
  \/ HandleEvaluate
  \/ \E resp \in Responses : EvaluateSettles(resp)
  \/ \E id \in KnownIds : SwitchProject(id)
  \/ \E i \in 1..(MaxLoads + 1) : LoadResolve(i)
  \/ RunEffect
  \/ Flush

SpecEvaluate == InitEvaluate /\ [][NextEvaluate]_vars

\* ---- DistillSection.handleRegenerateImage, several stages at a time
MaxStages == 3   \* the stage keys regenerated are the first ones
MaxRegen  == 2   \* regenerations requested per stage key

StageKeys == { DETAIL_STAGES[k] : k \in 1..MaxStages }


InitDistill ==
  /\ nextId = 1
  /\ now = 0
  /\ ops = 0
  /\ early = FALSE
  /\ exported = Undefined
  /\ localStorage = EmptyLs
  /\ idb = EmptyIdb
  /\ saveQueued = FALSE
  /\ pendingSave = Null
  /\ initialized = TRUE
  /\ currentProjectId = DEFAULT_PROJECT_ID
  /\ projects = << >>
  /\ effectPending = FALSE
  /\ loads = << >>
  /\ boot = [BootStart EXCEPT !.pc = "done"]
  /\ step = Step("init", 0, "")
  /\ wrote = << >>
  /\ reqLog = EmptyLog
  /\ lastDoc = [i \in ProjectIds |-> Undefined]
  /\ sw = Undefined
  /\ \E th \in Vals :
       appState = [defaultState EXCEPT !["researchTheme"] = th,
                                       !["refinedConcept"] = 1,
                                       !["detailImages"] = [k \in StageKeys |-> 0]]
  /\ hist =
       [regeneratingImages |-> {},
        flights |-> [k \in StageKeys |-> Null],
        count   |-> [k \in StageKeys |-> 0],
        latest  |-> [k \in StageKeys |-> 0]]

\* handleRegenerateImage up to the await of the request: the key joins the
\* in-progress set and the closure keeps the detailImages of its render.
HandleRegenerateImage(stageKey) ==
  /\ appState["refinedConcept"] # 0
  /\ stageKey \notin hist.regeneratingImages
  /\ hist.count[stageKey] < MaxRegen
  /\ hist' = [hist EXCEPT
                 !.regeneratingImages = @ \cup {stageKey},
                 !.count[stageKey] = @ + 1,
                 !.flights[stageKey] =
                    [detailImages |-> appState["detailImages"],
                     newImage |-> hist.count[stageKey] + 1]]
  /\ UNCHANGED appState
  /\ UNCHANGED sectionRest

\* The request of the key has settled: setDetailImages({...detailImages,
\* [stageKey]: newImage}) on success, and the key leaves the in-progress set.
RegenerateSettles(stageKey, resp) ==
  /\ hist.flights[stageKey] # Null
  /\ LET f    == hist.flights[stageKey]
         good == stepSucceeded(resp)
     IN  /\ appState' =
              IF good
              THEN [appState EXCEPT !["detailImages"] =
                      [f.detailImages EXCEPT ![stageKey] = f.newImage]]
              ELSE appState
         /\ hist' = [hist EXCEPT
                       !.regeneratingImages = @ \ {stageKey},
                       !.flights[stageKey] = Null,
                       !.latest[stageKey] = IF good THEN f.newImage ELSE @]
  /\ UNCHANGED sectionRest

NextDistill ==
  \/ \E k \in StageKeys : HandleRegenerateImage(k)
  \/ \E k \in StageKeys, resp \in Responses : RegenerateSettles(k, resp)

SpecDistill == InitDistill /\ [][NextDistill]_vars

\* --------------------------------------------- claims about the functions
\* C7 -- Defaults-merge completeness: whatever subset of the 13 fields the
\* stored document has, and whichever tier holds it (or none), the document
\* loadProjectState returns has all 13 fields, the stored value for a field
\* that was stored and the default for one that was not.
DefaultsMergeComplete ==
  Len(hist) = 2 =>
    /\ DOMAIN hist[2] = Fields
    /\ \A f \in Fields :
         hist[2][f] = IF hist[1].stored # Undefined /\ f \in DOMAIN hist[1].stored.o
                      THEN hist[1].stored.o[f]
                      ELSE defaultState[f]

\* C7 witness: a load of a document found only in localStorage that lacks
\* some fields and has a non-default value in another.
DefaultsMergeWitness ==
  /\ Len(hist) = 2
  /\ hist[1].tier = "localStorage"
  /\ "atmosphere" \notin DOMAIN hist[1].stored.o
  /\ "conditions" \in DOMAIN hist[1].stored.o
  /\ hist[2]["conditions"] = MaxVal
  /\ hist[2]["atmosphere"] = 0

\* The tiers after the k-th run of migrateIfNeeded (hist[k] is what the
\* k-th run started from).
After(k) == IF k < Len(hist) THEN hist[k + 1] ELSE Tiers
LegacyOf(t) == getItem(t.ls, LEGACY_STORAGE_KEY)
FirstVisit(t) == Len(loadProjectIndex(t.ls)) = 0
IsObjectBlob(raw) == raw.t = "text" /\ raw.parse.t = "object"

\* C8 -- Idempotent migration: a second run leaves both tiers as the first
\* run left them, and a run that starts with a non-empty Registry changes
\* nothing.
IdempotentMigration ==
  /\ Len(hist) = 2 => After(2) = After(1)
  /\ \A k \in DOMAIN hist : ~FirstVisit(hist[k]) => After(k) = hist[k]

\* C8 witness: two runs, the first of which migrated a legacy document.
IdempotentMigrationWitness ==
  /\ Len(hist) = 2
  /\ FirstVisit(hist[1])
  /\ IsObjectBlob(LegacyOf(hist[1]))
  /\ hist[2] # hist[1]
  /\ Tiers = hist[2]

\* C9 -- Legacy migration: from an empty Registry and a legacy blob that is a
\* JSON object with researchTheme T (the empty theme when it has none), the
\* run leaves a Registry of exactly the project "default" with theme T, no
\* legacy key, the pointer on "default", and in the bulk tier, under the
\* default project's key, the legacy fields merged over the defaults.
LegacyMigration ==
  (Len(hist) >= 1 /\ FirstVisit(hist[1]) /\ IsObjectBlob(LegacyOf(hist[1]))) =>
    LET d == LegacyOf(hist[1]).parse.o
        T == IF "researchTheme" \in DOMAIN d THEN d["researchTheme"] ELSE 0
        a == After(1)
    IN  /\ Len(loadProjectIndex(a.ls)) = 1
        /\ loadProjectIndex(a.ls)[1].id = DEFAULT_PROJECT_ID
        /\ loadProjectIndex(a.ls)[1].theme = T
        /\ getItem(a.ls, LEGACY_STORAGE_KEY) = Null
        /\ getItem(a.ls, CURRENT_PROJECT_KEY) = IdText(DEFAULT_PROJECT_ID)
        /\ idbGet(a.db, stateKeyFor(DEFAULT_PROJECT_ID))
             = Obj([f \in Fields |-> IF f \in DOMAIN d THEN d[f] ELSE 0])

\* C9 witness: a migrated legacy document with a theme and without conditions.
LegacyMigrationWitness ==
  /\ Len(hist) >= 1
  /\ FirstVisit(hist[1])
  /\ IsObjectBlob(LegacyOf(hist[1]))
  /\ DOMAIN LegacyOf(hist[1]).parse.o = {"researchTheme"}
  /\ loadProjectIndex(After(1).ls)[1].theme = MaxVal

\* C10 -- Fresh start: from an empty Registry and a legacy blob that is
\* absent or is not the text of a JSON object, the run still writes a
\* Registry of exactly the default project with the empty theme and puts the
\* pointer on "default", and the default project then loads as the defaults
\* and nothing else.
MigrationFreshStart ==
  (Len(hist) >= 1 /\ FirstVisit(hist[1]) /\ ~IsObjectBlob(LegacyOf(hist[1]))) =>
    LET a == After(1)
    IN  /\ Len(loadProjectIndex(a.ls)) = 1
        /\ loadProjectIndex(a.ls)[1].id = DEFAULT_PROJECT_ID
        /\ loadProjectIndex(a.ls)[1].name = "Default"
        /\ loadProjectIndex(a.ls)[1].theme = 0
        /\ getItem(a.ls, CURRENT_PROJECT_KEY) = IdText(DEFAULT_PROJECT_ID)
        /\ loadProjectState(a.ls, a.db, DEFAULT_PROJECT_ID).state = defaultState

\* The persisted current-project pointer.
Pointer == getItem(localStorage, CURRENT_PROJECT_KEY)

\* C13 -- duplicateProject does not switch and does not touch the other
\* documents: the call and the resolution of its load leave the current
\* project id, the persisted pointer and the document in memory unchanged and
\* leave every project other than the new one loading as before; a flush
\* that changes a document the bulk tier already held writes the current
\* project's own document.
DuplicateLeavesOthers ==
  [][ /\ (step'.op = "duplicateProject")
          => UNCHANGED << currentProjectId, appState, idb >> /\ Pointer' = Pointer
      /\ \A i \in DOMAIN loads :
           (/\ loads[i].op = "dup"
            /\ step'.op = "loaded"
            /\ step'.flag = "dup"
            /\ Len(loads') < Len(loads)
            /\ pendingSave' # Null
            /\ pendingSave'.projectId = loads[i].aux.newId)
             => /\ UNCHANGED << currentProjectId, appState >>
                /\ Pointer' = Pointer
                /\ \A p \in ProjectIds \ {loads[i].aux.newId} :
                     LoadedDoc(p)' = LoadedDoc(p)
      /\ \A p \in ProjectIds :
           (/\ step'.op = "flush"
            /\ idb[stateKeyFor(p)] # Undefined
            /\ idb'[stateKeyFor(p)] # idb[stateKeyFor(p)])
             => /\ p = currentProjectId
                /\ idb'[stateKeyFor(p)] = Obj(appState)
    ]_vars

\* C13 witness: the copy of a duplicated current project has been flushed
\* while the document in memory is not the default one.
DuplicateLeavesOthersWitness ==
  /\ step.op = "flush"
  /\ Len(wrote) = 1
  /\ \E p \in ProjectIds :
       /\ Find(projects, p) # Undefined
       /\ Find(projects, p).name = "Default (copy)"
       /\ wrote[1].key = stateKeyFor(p)
  /\ appState # defaultState

\* C14 -- switchProject to the current project is a no-op: it enqueues no
\* save, starts no load and leaves the document in memory, the current
\* project, both tiers (pointer and Registry among them) and the project
\* list unchanged.
SwitchToCurrentIsNoop ==
  [][ (step'.op = "switchProject" /\ step'.id = currentProjectId)
        => UNCHANGED << saveQueued, pendingSave, loads, appState,
                        currentProjectId, localStorage, idb, projects,
                        effectPending, reqLog >> ]_vars

\* C14 witness: switchProject to the current project while a save of an
\* edited document is still pending.
SwitchToCurrentIsNoopWitness ==
  /\ step.op = "switchProject"
  /\ step.id = currentProjectId
  /\ step.flag = "noop"
  /\ saveQueued
  /\ appState # defaultState

\* C15 -- deleteProject on a Registry of two or more: the call leaves the
\* Registry without the entry of id and both tiers without a document for
\* id; when id is not the current project the current project and the
\* document in memory are unchanged and no load starts; when it is, a load
\* of the first remaining entry starts, and when that load resolves the
\* current project is that entry, the document in memory is the document
\* loaded for it, and the pointer names it.
DeleteRemoves ==
  [][ /\ (step'.op = "deleteProject" /\ Len(loadProjectIndex(localStorage)) >= 2)
          => LET id   == step'.id
                 rest == SelectSeq(loadProjectIndex(localStorage),
                                   LAMBDA p : p.id # id)
             IN  /\ loadProjectIndex(localStorage') = rest
                 /\ idbGet(idb', stateKeyFor(id)) = Undefined
                 /\ getItem(localStorage', stateKeyFor(id)) = Null
                 /\ UNCHANGED << currentProjectId, appState >>
                 /\ Pointer' = Pointer
                 /\ IF id = currentProjectId
                    THEN /\ Len(loads') = Len(loads) + 1
                         /\ loads'[Len(loads')].op = "delete"
                         /\ loads'[Len(loads')].id = rest[1].id
                    ELSE loads' = loads
      /\ \A i \in DOMAIN loads :
           (/\ loads[i].op = "delete"
            /\ step'.op = "loaded"
            /\ step'.flag = "delete"
            /\ step'.id = loads[i].id
            /\ Len(loads') < Len(loads))
             => /\ currentProjectId' = loads[i].id
                /\ appState' = LoadedDoc(loads[i].id)
                /\ Pointer' = IdText(loads[i].id)
    ]_vars

\* C15 witness: the current project of a Registry of three was deleted and
\* the load of the first remaining project has resolved.
DeleteRemovesWitness ==
  /\ step.op = "loaded"
  /\ step.flag = "delete"
  /\ currentProjectId = step.id
  /\ Len(loadProjectIndex(localStorage)) >= 2
  /\ loadProjectIndex(localStorage)[1].id = currentProjectId

PointerFailSoft ==
  Len(hist) = 2 => (~hist[2].raised /\ initialized)

\* C18 -- When the bulk-tier write of a move fails (legacy blob by
\* migrateIfNeeded, older project document by the mount loop or by
\* loadProjectState), the source copy is still in the small-value tier
\* afterwards: the document is never in neither tier.
MoveAttempted ==
  LET ls0 == hist[1].ls
  IN  \/ hist[2].op = "migrate" /\ MigrateWrites(ls0)
      \/ hist[2].op = "scan" /\ ScanNext(ls0, loadProjectIndex(ls0), 1) # 0
      \/ hist[2].op = "load"
           /\ LoadAfterGet(ls0, EmptyIdb, loadCurrentProjectId(ls0)).await

SourceKey ==
  IF hist[2].op = "migrate" THEN LEGACY_STORAGE_KEY
  ELSE stateKeyFor(DEFAULT_PROJECT_ID)

FailedMoveKeepsSource ==
  (Len(hist) = 2 /\ hist[1].outcome # "written" /\ MoveAttempted)
    => \/ getItem(localStorage, SourceKey) = getItem(hist[1].ls, SourceKey)
       \/ idb[stateKeyFor(DEFAULT_PROJECT_ID)] # Undefined

\* C19 -- Automatic persistence: what a flush writes for the current
\* project is the document of the last save call made for it, and once the
\* user has stopped and no load is in flight, the bulk-tier document of the
\* current project ends up equal to the document in memory.
Persisted == idb[stateKeyFor(currentProjectId)] = Obj(appState)

FlushNeverStale ==
  (step'.op = "flush" /\ wrote' # << >>
     /\ wrote'[1].key = stateKeyFor(currentProjectId))
    => wrote'[1].value = lastDoc[currentProjectId]

AutomaticPersistence ==
  /\ [][FlushNeverStale]_vars
  /\ <>[]((initialized /\ loads = << >>) => Persisted)

\* C20 -- A failed request to the generation service never changes the
\* document: when handleGenerate has ended, isGenerating is false, and the
\* document is the one the call found, with one job appended exactly when a
\* step succeeded, holding the images of the successful steps in step order;
\* until then the document is unchanged.
RECURSIVE SuccessfulImages(_, _)
SuccessfulImages(ratios, seen) ==
  IF seen = << >> THEN << >>
  ELSE LET n == Len(seen)
           before == SuccessfulImages(ratios, SubSeq(seen, 1, n - 1))
       IN  IF ~seen[n].raises /\ seen[n].ok /\ seen[n].image
           THEN Append(before, GeneratedImage(ratios[n]))
           ELSE before

FailedGenerationKeepsDocument ==
  /\ hist.pc \in {"fetch", "wait"} => (appState = hist.doc0 /\ hist.isGenerating)
  /\ hist.pc = "done" =>
       LET good == SuccessfulImages(hist.ratios, hist.seen)
       IN  /\ ~hist.isGenerating
           /\ Len(hist.seen) = Len(hist.ratios)
           /\ appState = IF good = << >> THEN hist.doc0
                          ELSE [hist.doc0 EXCEPT !["generateJobs"] =
                                  Append(@, GenerateJob(good))]

FailedGenerationKeepsDocumentWitness ==
  /\ hist.pc = "done"
  /\ Len(hist.seen) >= 3
  /\ hist.seen[1].raises
  /\ hist.seen[2].ok /\ hist.seen[2].image
  /\ hist.seen[3].ok /\ ~hist.seen[3].image
  /\ Len(appState["generateJobs"]) = Len(hist.doc0["generateJobs"]) + 1

\* C21 -- updatedAt of a project is bumped exactly when a write of that
\* project's document reaches the bulk tier: a step changes the updatedAt of
\* a project if and only if it wrote that project's document.
StampOf(projs, p) ==
  IF \E i \in DOMAIN projs : projs[i].id = p THEN Find(projs, p).updatedAt
  ELSE -1

Stamped(p) ==
  /\ StampOf(projects, p) # -1
  /\ StampOf(projects', p) # -1
  /\ StampOf(projects', p) # StampOf(projects, p)

WroteDoc(p) == \E k \in DOMAIN wrote' : wrote'[k].key = stateKeyFor(p)

BumpExactlyWhenPersisted ==
  [][\A p \in ProjectIds : Stamped(p) <=> WroteDoc(p)]_vars

\* C22 -- Every operation that changes the Registry computes the new value
\* from the persisted one and writes it back whole: an operation other than
\* deleteProject keeps every persisted entry, and after the operation the
\* in-memory project list equals the persisted Registry.
RegistryOps ==
  {"createProject", "deleteProject", "duplicateProject", "renameProject",
   "importProject"}

RegistryChanged ==
  \/ step.op \in RegistryOps /\ step.flag \notin {"noop", "refused", "threw"}
  \/ step.op \in {"mutate", "effect"} /\ initialized

RegistryIds(ls) ==
  { loadProjectIndex(ls)[i].id : i \in DOMAIN loadProjectIndex(ls) }

RegistryReadModifyWrite ==
  [][RegistryChanged' =>
       /\ projects' = loadProjectIndex(localStorage')
       /\ step'.op # "deleteProject"
            => RegistryIds(localStorage) \subseteq RegistryIds(localStorage')]_vars

\* C23 -- In the detail chain the stages are requested one after another in
\* the fixed order, a failed stage does not stop the later ones, stages 1 to
\* 3 are requested without reference images, and stages 4 and 5 are each
\* requested with exactly the images of the successful stages among 1 to 3.
RECURSIVE SuccessfulStages(_, _)
SuccessfulStages(seen, n) ==
  IF n = 0 THEN << >>
  ELSE IF ~seen[n].raises /\ seen[n].ok /\ seen[n].image
       THEN Append(SuccessfulStages(seen, n - 1), [key |-> DETAIL_STAGES[n]])
       ELSE SuccessfulStages(seen, n - 1)

DetailChainReferences ==
  /\ hist.pc = "done" /\ hist.seen # << >> => Len(hist.requests) = Len(DETAIL_STAGES)
  /\ Len(hist.requests) \in {Len(hist.seen), Len(hist.seen) + 1}
  /\ \A k \in DOMAIN hist.requests :
       /\ hist.requests[k].stage = DETAIL_STAGES[k]
       /\ hist.requests[k].referenceImages =
            IF k <= 3 THEN << >> ELSE SuccessfulStages(hist.seen, 3)

\* C24 -- No project document is overwritten by the in-memory state that
\* was never loaded: while the provider is not initialized, a flush leaves
\* every document the bulk tier already holds as it is.
UnloadedNeverWritten ==
  [][(step'.op = "flush" /\ ~initialized)
       => \A k \in DOMAIN wrote' :
            idb[wrote'[k].key] # Undefined => idb'[wrote'[k].key] = idb[wrote'[k].key]]_vars

\* C25 -- Once deleteProject has removed a project, the bulk tier holds no
\* document under that project's key in any later state.
\* Project ids are never reused, so an id that was handed out and is no longer
\* in the persisted Registry is the id of a removed project.
Removed(p) ==
  /\ p < nextId
  /\ p \notin RegistryIds(localStorage)
  /\ idb[stateKeyFor(p)] = Undefined

DeletedStaysDeleted ==
  [][\A p \in ProjectIds :
       Removed(p) => idb'[stateKeyFor(p)] = Undefined]_vars

\* C26 -- After initialization the persisted pointer and the in-memory
\* current project id name a project that is in the Registry, in every state.
CurrentIsRegistered ==
  initialized =>
    /\ currentProjectId \in RegistryIds(localStorage)
    /\ loadCurrentProjectId(localStorage) \in RegistryIds(localStorage)

\* C27 -- The result of a request started while project A is current is
\* recorded in A's document only: neither the in-memory document of another
\* current project nor the stored document of another project holds it.
ResultStaysInProject ==
  /\ resultOrigins(appState["evaluationResults"]) \subseteq {currentProjectId}
  /\ \A p \in ProjectIds :
       idb[stateKeyFor(p)] # Undefined
         => resultOrigins(idb[stateKeyFor(p)].o["evaluationResults"]) \subseteq {p}

\* C28 -- When switches overlap, the project that is current once every
\* load has resolved is the one requested last, and the pointer names it.
LastSwitchWins ==
  (sw # Undefined /\ loads = << >> /\ sw.to \in RegistryIds(localStorage))
    => /\ currentProjectId = sw.to
       /\ loadCurrentProjectId(localStorage) = sw.to

\* C29 -- Overlapping regenerations of different stages keep each other's
\* result: once no request is in flight, detailImages holds for every stage
\* the image of its last successful regeneration, and the in-progress set is
\* empty.
RegenerationsKept ==
  (\A k \in StageKeys : hist.flights[k] = Null)
    => /\ appState["detailImages"] = hist.latest
       /\ hist.regeneratingImages = {}

\* C30 -- importProject on a text that is not JSON or that parses to null
\* raises and changes nothing; on a valid text the imported project becomes
\* current under a fresh id, its name is meta.name or "Imported", its theme
\* meta.theme or empty, and its document is the defaults merged with the
\* state of the export or with the bare document.
ImportRejected == { Garbage, Text(Null) }

ImportExpected ==
  { [text  |-> JSONstringify([meta  |-> ProjectMeta(1, "New", MaxVal, 0, 0),
                              state |-> Obj([defaultState EXCEPT
                                               !["researchTheme"] = MaxVal])]),
     name  |-> "New", theme |-> MaxVal,
     state |-> [defaultState EXCEPT !["researchTheme"] = MaxVal]],
    [text  |-> Text(Obj([researchTheme |-> MaxVal])),
     name  |-> "Imported", theme |-> 0,
     state |-> [defaultState EXCEPT !["researchTheme"] = MaxVal]],
    [text  |-> JSONstringify([meta |-> [name |-> "Renamed"],
                              state |-> Obj([conditions |-> MaxVal])]),
     name  |-> "Renamed", theme |-> 0,
     state |-> [defaultState EXCEPT !["conditions"] = MaxVal]],
    [text  |-> JSONstringify([meta |-> [theme |-> MaxVal],
                              state |-> Obj(defaultState)]),
     name  |-> "Imported", theme |-> MaxVal,
     state |-> defaultState],
    [text  |-> JSONstringify([meta |-> Null,
                              state |-> Obj([conditions |-> MaxVal])]),
     name  |-> "Imported", theme |-> 0,
     state |-> [defaultState EXCEPT !["conditions"] = MaxVal]] }

ImportStep ==
  /\ step'.op = "importProject"
  /\ ops' = ops + 1

ImportContract ==
  [][ImportStep =>
       IF hist'[1] \in ImportRejected
       THEN /\ step'.flag = "threw"
            /\ UNCHANGED << localStorage, idb, saveQueued, pendingSave, appState,
                            currentProjectId, projects >>
       ELSE \E e \in ImportExpected :
              /\ e.text = hist'[1]
              /\ step'.flag # "threw"
              /\ currentProjectId' \notin RegistryIds(localStorage)
              /\ currentProjectId' # currentProjectId
              /\ loadCurrentProjectId(localStorage') = currentProjectId'
              /\ appState' = e.state
              /\ pendingSave' = PendingSave(currentProjectId', e.state)
              /\ projects' = loadProjectIndex(localStorage')
              /\ Find(projects', currentProjectId').name = e.name
              /\ Find(projects', currentProjectId').theme = e.theme
              /\ RegistryIds(localStorage')
                   = RegistryIds(localStorage) \cup {currentProjectId'}]_vars

ImportContractWitness ==
  /\ step.op = "importProject"
  /\ step.flag # "threw"
  /\ hist = << JSONstringify([meta |-> [name |-> "Renamed"],
                              state |-> Obj([conditions |-> MaxVal])]) >>
  /\ appState["conditions"] = MaxVal

====
